---- MODULE Spec2Model ----
(***************************************************************************)
(* Model of the integration-test fixture of the dashboard test suite:      *)
(*   helpers.py       BaseTestCase / TestCase / AdminTestCase life cycle,  *)
(*                    VideoRecorder, once_only, ignore_skip, failure hooks *)
(*   test_flavors.py  the TestFlavors test methods                         *)
(*   apiaccesspage.py the polling wait for a downloaded credentials file   *)
(* The test runner (testtools) calls setUp, the test method and tearDown;  *)
(* an exception raised by any of them is handed to the registered          *)
(* onException hooks before it is reported.                                 *)
(***************************************************************************)
EXTENDS Naturals, Sequences, FiniteSets

\* ------------------------------------------------------------------ bounds

\* Number of times the condition of a polling wait is evaluated before the
\* timeout elapses (timeout divided by the poll interval).
WaitPolls == 2

\* Number of recording processes one VideoRecorder may launch.
MaxLaunches == 2

\* Longest sequence handed to assertSequenceTrue / assertSequenceFalse.
MaxLen == 5

\* --------------------------------------------------------------- constants

NoExc == "none"

\* TestCase.ADMIN_NAME / DEMO_NAME, ADMIN_PROJECT / DEMO_PROJECT
ADMIN_NAME == "admin"

DEMO_NAME == "demo"

ADMIN_PROJECT == "admin"

DEMO_PROJECT == "demo"

\* TestFlavors.FLAVOR_NAME and the names the tests derive from it
FLAVOR_NAME == "flavor"

\* 'new-' + FLAVOR_NAME, the name test_edit_flavor gives the flavor
NEW_FLAVOR_NAME == "new-flavor"

\* The keys of new_metadata in test_flavor_update_metadata, in some dict order
MetadataKeys == << "metadata1", "metadata2" >>

\* The test methods of TestFlavors
FlavorTests ==
  { "test_flavor_create", "test_flavor_update_metadata", "test_edit_flavor",
    "test_modify_flavor_access", "test_delete_flavors" }

\* The classes and test methods the runner may pick
Tests ==
  { <<"TestCase", "test_generic">>,
    <<"TestFlavors", "test_flavor_create">>,
    <<"TestFlavors", "test_modify_flavor_access">>,
    <<"TestFlavors", "test_delete_flavors">> }

\* TestCase.TEST_USER_NAME, overridden by AdminTestCase
TEST_USER_NAME(c) == IF c = "TestCase" THEN DEMO_NAME ELSE ADMIN_NAME

\* TestCase.HOME_PROJECT, overridden by AdminTestCase
HOME_PROJECT(c) == IF c = "TestCase" THEN DEMO_PROJECT ELSE ADMIN_PROJECT

\* The five failure hooks in the order setUp registers them
HookOrder == <<"page_source", "screenshot", "video", "browser_log", "test_log">>

\* ------------------------------------------------------------------- state

VARIABLES
  INTEGRATION_TESTS,  \* os.environ flag
  SELENIUM_HEADLESS,  \* os.environ flag
  called_funcs,       \* once_only: names already called in this process
  cls, method,        \* the running test
  pc,                 \* idle | setUp | demo_user | login | test | tearDown | hooks | done
  phase,              \* setUp | test | tearDown : what the runner is running
  step,               \* position inside the test method
  exc,                \* type name of the exception being handled
  reported,           \* type name of the first exception of the test
  crashed,            \* an onException hook raised out of the runner
  hooks,              \* the five hooks are registered (addOnException)
  hookIdx,            \* next hook to call
  hookCalls,          \* hooks called for the current exception
  hookBodies,         \* hooks whose body was entered for the current exception
  vdisplay,           \* absent | started | stopped
  driver,             \* absent | open | quit
  sessions,           \* browser sessions created for this test
  screencapture,      \* the VideoRecorder of this test
  loggedIn,           \* user logged in in the browser session
  project,            \* project selected in the browser session
  demoProject,        \* dashboard: the demo project exists
  demoUser,           \* dashboard: absent | stale | fresh
  flavors,            \* dashboard: names in the flavors table
  private,            \* dashboard: flavors restricted to the admin project
  lastOp,             \* last page operation of the test and what it showed
  reportDir,          \* the per-test report directory exists
  artifacts,          \* files written to the report directory
  details,            \* labels recorded with addDetail
  setUpDone,          \* TestCase.setUp returned normally
  tdLogout,           \* tearDown's logout step: none | skipped | done | raised
  demoUserRun,        \* create_demo_user in this test: none | body | noop
  directory,          \* entries of the download directory
  wpc,                \* get_credentials_from_file: idle | waiting | list | opened | timeout | error
  polls,              \* evaluations of the wait's condition so far
  observed,           \* the directory as the wait saw it when its condition held
  opened,             \* the entry get_credentials_from_file opened
  metadata,           \* dashboard: metadata keys stored on the flavor FLAVOR_NAME
  results,            \* test_flavor_update_metadata: what check_flavor_metadata returned
  actual,             \* AssertsMixin: the sequence handed to the matcher
  pageOp,             \* pages: the page operation called last
  pageArgs,           \* pages: its arguments (row name, optional arguments given, source type)
  events,             \* pages: what the operation did to forms, in order
  outcome,            \* pages: none | returned | type name of the exception raised
  users,              \* dashboard: the users table
  volumes,            \* dashboard: names in the volumes table
  verdict             \* AssertsMixin: none | True:pass | True:fail | False:pass | False:fail

fixtureVars ==
  << INTEGRATION_TESTS, SELENIUM_HEADLESS, called_funcs, cls, method,
     pc, phase, step, exc, reported, crashed, hooks, hookIdx, hookCalls,
     hookBodies, vdisplay, driver, sessions, screencapture, loggedIn, project,
     demoProject, demoUser, flavors, private, lastOp, reportDir, artifacts,
     details, setUpDone, tdLogout, demoUserRun >>

waitVars == << directory, wpc, polls, observed, opened >>

\* State of the AssertsMixin matchers
assertVars == << actual, verdict >>

\* State of the UsersPage / VolumesPage / ApiaccessPage operations
pageVars == << pageOp, pageArgs, events, outcome, users, volumes >>

\* State that neither the fixture nor the TestFlavors tests touch
otherVars == << assertVars, pageVars >>

extVars == << metadata, results, otherVars >>

vars == << fixtureVars, waitVars, extVars >>

\* ------------------------------------------------------------ VideoRecorder

NoRecorder ==
  [present |-> FALSE, is_launched |-> FALSE, running |-> 0, launches |-> 0,
   signals |-> 0]

\* VideoRecorder.__init__
VideoRecorder_init ==
  [present |-> TRUE, is_launched |-> FALSE, running |-> 0, launches |-> 0,
   signals |-> 0]

\* VideoRecorder.start, when Popen succeeds
VideoRecorder_start(r) ==
  IF ~r.is_launched
    THEN [r EXCEPT !.running = @ + 1, !.launches = @ + 1, !.is_launched = TRUE]
    ELSE r

\* VideoRecorder.stop that signals the process and forgets to clear the flag
VideoRecorder_stop_keeps_flag(r) ==
  IF r.is_launched
    THEN [r EXCEPT !.signals = @ + 1,
                   !.running = IF @ > 0 THEN @ - 1 ELSE 0]
    ELSE r

\* VideoRecorder.stop
VideoRecorder_stop(r) ==
  IF r.is_launched
    THEN [r EXCEPT !.signals = @ + 1,
                   !.running = IF @ > 0 THEN @ - 1 ELSE 0,
                   !.is_launched = FALSE]
    ELSE r

\* ------------------------------------------------------------------ runner

NoOp ==
  [op |-> "none", names |-> {}, arg |-> {}, success |-> FALSE, error |-> FALSE,
   returned |-> FALSE]

\* once_only without the called_funcs test
once_only_always(name) == TRUE

\* once_only's wrapper: the body runs when the name was not called before
once_only(name) == name \notin called_funcs

\* ignore_skip that never returns early
ignore_skip_never(e) == FALSE

\* ignore_skip's wrapper: the hook returns at once for a skip
ignore_skip(e) == e = "SkipTest"

\* Where the runner goes after the hooks of the current phase
AfterHooks == IF phase = "test" THEN "tearDown" ELSE "done"

\* An exception of type e leaves the running phase: the runner calls the
\* registered hooks, then tearDown (after the test method) or ends the test.
Raise(e) ==
  /\ exc' = e
  /\ reported' = IF reported = NoExc THEN e ELSE reported
  /\ hookCalls' = {}
  /\ hookBodies' = {}
  /\ IF hooks
       THEN pc' = "hooks" /\ hookIdx' = 1 /\ phase' = phase
       ELSE pc' = AfterHooks /\ hookIdx' = hookIdx
            /\ phase' = IF phase = "test" THEN "tearDown" ELSE phase

FixtureInit ==
  /\ INTEGRATION_TESTS \in BOOLEAN
  /\ SELENIUM_HEADLESS \in BOOLEAN
  /\ called_funcs = {}
  /\ cls = "" /\ method = ""
  /\ pc = "idle" /\ phase = "setUp" /\ step = 0
  /\ exc = NoExc /\ reported = NoExc /\ crashed = FALSE
  /\ hooks = FALSE /\ hookIdx = 0 /\ hookCalls = {} /\ hookBodies = {}
  /\ vdisplay = "absent" /\ driver = "absent" /\ sessions = 0
  /\ screencapture = NoRecorder
  /\ loggedIn = "none" /\ project = "none"
  /\ demoProject \in BOOLEAN
  /\ demoUser \in {"absent", "stale"}
  /\ flavors = {} /\ private = {}
  /\ lastOp = NoOp
  /\ reportDir = FALSE /\ artifacts = {} /\ details = {}
  /\ setUpDone = FALSE /\ tdLogout = "none" /\ demoUserRun = "none"

NoFile == [name |-> << >>, isfile |-> FALSE]

NoArgs == [name |-> "", given |-> {}, source |-> ""]

ExtInit ==
  /\ metadata = {} /\ results = << >>
  /\ actual = << >> /\ verdict = "none"
  /\ pageOp = "none" /\ pageArgs = NoArgs /\ events = << >>
  /\ outcome = "none" /\ users = {} /\ volumes = {}

Init ==
  /\ FixtureInit
  /\ ExtInit
  /\ directory = {} /\ wpc = "idle" /\ polls = 0 /\ observed = {}
  /\ opened = NoFile

\* The runner constructs the next test case and calls its setUp.
StartTest ==
  /\ pc \in {"idle", "done"}
  /\ \E t \in Tests : cls' = t[1] /\ method' = t[2]
  /\ pc' = "setUp" /\ phase' = "setUp" /\ step' = 0
  /\ exc' = NoExc /\ reported' = NoExc /\ crashed' = FALSE
  /\ hooks' = FALSE /\ hookIdx' = 0 /\ hookCalls' = {} /\ hookBodies' = {}
  /\ vdisplay' = "absent" /\ driver' = "absent" /\ sessions' = 0
  /\ screencapture' = NoRecorder
  /\ loggedIn' = "none" /\ project' = "none"
  /\ lastOp' = NoOp
  /\ reportDir' = FALSE /\ artifacts' = {} /\ details' = {}
  /\ setUpDone' = FALSE /\ tdLogout' = "none" /\ demoUserRun' = "none"
  /\ UNCHANGED << extVars, waitVars, INTEGRATION_TESTS, SELENIUM_HEADLESS, called_funcs,
                  demoProject, demoUser, flavors, private >>

\* The runner goes through the tests of TestFlavors, in any order: it
\* constructs the next test case and calls its setUp.  The run is followed
\* up to and including its first test that does not pass.
StartFlavorsTest ==
  /\ pc \in {"idle", "done"}
  /\ reported = NoExc
  /\ cls' = "TestFlavors"
  /\ \E m \in FlavorTests : method' = m
  /\ results' = << >>
  /\ pc' = "setUp" /\ phase' = "setUp" /\ step' = 0
  /\ exc' = NoExc /\ reported' = NoExc /\ crashed' = FALSE
  /\ hooks' = FALSE /\ hookIdx' = 0 /\ hookCalls' = {} /\ hookBodies' = {}
  /\ vdisplay' = "absent" /\ driver' = "absent" /\ sessions' = 0
  /\ screencapture' = NoRecorder
  /\ loggedIn' = "none" /\ project' = "none"
  /\ lastOp' = NoOp
  /\ reportDir' = FALSE /\ artifacts' = {} /\ details' = {}
  /\ setUpDone' = FALSE /\ tdLogout' = "none" /\ demoUserRun' = "none"
  /\ UNCHANGED << otherVars, waitVars, INTEGRATION_TESTS, SELENIUM_HEADLESS,
                  called_funcs, demoProject, demoUser, flavors, private,
                  metadata >>

\* BaseTestCase.setUp without the INTEGRATION_TESTS check
skip_gate_off == FALSE

\* BaseTestCase.setUp: not os.environ.get('INTEGRATION_TESTS', False)
skip_gate == ~INTEGRATION_TESTS

\* BaseTestCase.setUp: os.environ.get('SELENIUM_HEADLESS', False)
headless_gate == SELENIUM_HEADLESS

\* BaseTestCase.setUp: the skip gate, the virtual display, the webdriver, the
\* recorder and the registration of the hooks.  WebDriverWrapper(),
\* VideoRecorder() (xdpyinfo) and Popen may raise.
BaseTestCase_setUp ==
  /\ pc = "setUp"
  /\ UNCHANGED << demoUserRun, extVars, waitVars, INTEGRATION_TESTS, SELENIUM_HEADLESS, called_funcs,
                  cls, method, step, crashed, loggedIn, project, demoProject,
                  demoUser, flavors, private, lastOp, reportDir, artifacts,
                  details, setUpDone, tdLogout >>
  /\ IF skip_gate
       THEN /\ Raise("SkipTest")
            /\ UNCHANGED << hooks, vdisplay, driver, sessions, screencapture >>
       ELSE /\ vdisplay' = IF headless_gate THEN "started" ELSE vdisplay
            /\ \E fail \in {"none", "driver", "recorder", "popen"} :
                 /\ driver' = IF fail = "driver" THEN driver ELSE "open"
                 /\ sessions' = IF fail = "driver" THEN sessions ELSE sessions + 1
                 /\ screencapture' =
                      CASE fail \in {"driver", "recorder"} -> screencapture
                        [] fail = "popen" -> VideoRecorder_init
                        [] OTHER -> VideoRecorder_start(VideoRecorder_init)
                 /\ IF fail = "none"
                      THEN /\ hooks' = TRUE
                           /\ pc' = "demo_user"
                           /\ UNCHANGED << phase, exc, reported, hookIdx,
                                           hookCalls, hookBodies >>
                      ELSE /\ hooks' = hooks
                           /\ Raise(IF fail = "driver" THEN "WebDriverException"
                                    ELSE IF fail = "recorder"
                                      THEN "CalledProcessError" ELSE "OSError")

\* TestCase.create_demo_user behind once_only: the first call of the process
\* logs in as admin, makes sure the demo project exists, deletes and recreates
\* the demo user and logs out; every UI step may raise.  "rejected": the
\* create-user form is submitted, the dashboard refuses it and nothing raises.
TestCase_create_demo_user ==
  /\ pc = "demo_user"
  /\ UNCHANGED << extVars, waitVars, INTEGRATION_TESTS, SELENIUM_HEADLESS, cls, method,
                  step, crashed, hooks, vdisplay, driver, sessions,
                  screencapture, flavors, private, lastOp, reportDir,
                  artifacts, details, setUpDone, tdLogout >>
  /\ IF ~once_only("create_demo_user")
       THEN /\ pc' = "login" /\ demoUserRun' = "noop"
            /\ UNCHANGED << called_funcs, phase, exc, reported, hookIdx,
                            hookCalls, hookBodies, loggedIn, project,
                            demoProject, demoUser >>
       ELSE /\ called_funcs' = called_funcs \cup {"create_demo_user"}
            /\ demoUserRun' = "body"
            /\ \E fail \in {"none", "rejected", "login", "project", "delete",
                            "create", "logout"} :
                 /\ fail = "delete" => demoUser # "absent"
                 /\ loggedIn' = IF fail \in {"none", "rejected", "login"}
                                  THEN "none" ELSE ADMIN_NAME
                 /\ project' = IF fail \in {"none", "rejected", "login"}
                                 THEN "none" ELSE ADMIN_PROJECT
                 /\ demoProject' = IF fail \in {"login", "project"}
                                     THEN demoProject ELSE TRUE
                 /\ demoUser' = CASE fail \in {"login", "project", "delete"}
                                       -> demoUser
                                  [] fail \in {"create", "rejected"} -> "absent"
                                  [] OTHER -> "fresh"
                 /\ IF fail \in {"none", "rejected"}
                      THEN /\ pc' = "login"
                           /\ UNCHANGED << phase, exc, reported, hookIdx,
                                           hookCalls, hookBodies >>
                      ELSE Raise("WebDriverException")

\* LoginPage.login: fills the login form, which is there only when nobody is
\* logged in, and succeeds for an existing user.
CanLogin(user) ==
  /\ loggedIn = "none"
  /\ driver = "open"
  /\ user = DEMO_NAME => demoUser # "absent"

\* TestCase.setUp logging in with the admin credentials create_demo_user uses
setUp_session_admin(c) == [user |-> ADMIN_NAME, project |-> ADMIN_PROJECT]

\* TestCase.setUp: the user setUp logs in and the project it selects
setUp_session(c) == [user |-> TEST_USER_NAME(c), project |-> HOME_PROJECT(c)]

\* TestCase.setUp after create_demo_user: login as TEST_USER_NAME,
\* change_project(HOME_PROJECT) and the two message assertions.
TestCase_setUp ==
  /\ pc = "login"
  /\ UNCHANGED << demoUserRun, extVars, waitVars, INTEGRATION_TESTS, SELENIUM_HEADLESS, called_funcs,
                  cls, method, step, crashed, hooks, vdisplay, driver, sessions,
                  screencapture, demoProject, demoUser, flavors, private,
                  lastOp, reportDir, artifacts, details, tdLogout >>
  /\ \E fail \in {"none", "login", "project", "message"} :
       /\ fail # "login" => CanLogin(setUp_session(cls).user)
       /\ loggedIn' = IF fail = "login" THEN loggedIn
                      ELSE setUp_session(cls).user
       /\ project' = CASE fail = "login" -> project
                       [] fail = "project" -> "default"
                       [] OTHER -> setUp_session(cls).project
       /\ IF fail = "none"
            THEN /\ pc' = "test" /\ phase' = "test" /\ setUpDone' = TRUE
                 /\ UNCHANGED << exc, reported, hookIdx, hookCalls, hookBodies >>
            ELSE /\ setUpDone' = setUpDone
                 /\ Raise(IF fail = "message" THEN "MismatchError"
                          ELSE "WebDriverException")

\* A test method of a TestCase subclass other than TestFlavors: it passes,
\* fails or skips, and may leave the session logged out.
GenericTest ==
  /\ pc = "test" /\ cls = "TestCase"
  /\ UNCHANGED << demoUserRun, extVars, waitVars, INTEGRATION_TESTS, SELENIUM_HEADLESS, called_funcs,
                  cls, method, step, crashed, hooks, vdisplay, driver, sessions,
                  screencapture, demoProject, demoUser, flavors, private,
                  lastOp, reportDir, artifacts, details, setUpDone, tdLogout >>
  /\ \E out \in BOOLEAN :
       /\ loggedIn' = IF out THEN "none" ELSE loggedIn
       /\ project' = IF out THEN "none" ELSE project
  /\ \E r \in {"pass", "SkipTest", "MismatchError"} :
       IF r = "pass"
         THEN /\ pc' = "tearDown" /\ phase' = "tearDown"
              /\ UNCHANGED << exc, reported, hookIdx, hookCalls, hookBodies >>
         ELSE Raise(r)

\* TestCase.tearDown with the base tearDown after the try block, not in finally
tearDown_no_finally(logoutRaised) == ~logoutRaised

\* The finally clause of TestCase.tearDown: BaseTestCase.tearDown runs whether
\* or not the logout step raised.
tearDown_finally(logoutRaised) == TRUE

\* BaseTestCase.tearDown: stop the recorder, quit the session, stop the display.
BaseTestCase_tearDown ==
  /\ screencapture' = VideoRecorder_stop(screencapture)
  /\ driver' = IF INTEGRATION_TESTS THEN "quit" ELSE driver
  /\ vdisplay' = IF vdisplay # "absent" THEN "stopped" ELSE vdisplay

\* TestCase.tearDown: log out when logged in, then BaseTestCase.tearDown.
TestCase_tearDown ==
  /\ pc = "tearDown"
  /\ UNCHANGED << demoUserRun, extVars, waitVars, INTEGRATION_TESTS, SELENIUM_HEADLESS, called_funcs,
                  cls, method, step, crashed, hooks, sessions, demoProject,
                  demoUser, flavors, private, lastOp, reportDir, artifacts,
                  details, setUpDone >>
  /\ \E raised \in BOOLEAN :
       /\ loggedIn = "none" => ~raised
       /\ tdLogout' = IF loggedIn = "none" THEN "skipped"
                      ELSE IF raised THEN "raised" ELSE "done"
       /\ loggedIn' = IF raised THEN loggedIn ELSE "none"
       /\ project' = IF raised THEN project ELSE "none"
       /\ IF tearDown_finally(raised)
            THEN BaseTestCase_tearDown
            ELSE UNCHANGED << screencapture, driver, vdisplay >>
       /\ IF raised
            THEN Raise("WebDriverException")
            ELSE /\ pc' = "done"
                 /\ UNCHANGED << phase, exc, reported, hookIdx, hookCalls,
                                 hookBodies >>

\* ------------------------------------------------------------- AssertsMixin

\* [value] * n
Repeat(value, n) == [i \in 1..n |-> value]

\* assertSequenceTrue that accepts a sequence with one True element
assertSequenceTrue_some(seq) ==
  seq = << >> \/ \E i \in 1..Len(seq) : seq[i] = TRUE

\* AssertsMixin.assertSequenceTrue:
\* assertEqual(list(actual), [True] * len(actual))
assertSequenceTrue(seq) == seq = Repeat(TRUE, Len(seq))

\* AssertsMixin.assertSequenceFalse:
\* assertEqual(list(actual), [False] * len(actual))
assertSequenceFalse(seq) == seq = Repeat(FALSE, Len(seq))

\* The sequences of booleans a test may hand to the matchers
BoolSequences == UNION { [1..n -> BOOLEAN] : n \in 0..MaxLen }

\* A test calls self.assertSequenceTrue(actual).
assertSequenceTrue_call ==
  /\ \E seq \in BoolSequences :
       /\ actual' = seq
       /\ verdict' = IF assertSequenceTrue(seq) THEN "True:pass" ELSE "True:fail"
  /\ UNCHANGED << fixtureVars, waitVars, metadata, results, pageVars >>

\* A test calls self.assertSequenceFalse(actual).
assertSequenceFalse_call ==
  /\ \E seq \in BoolSequences :
       /\ actual' = seq
       /\ verdict' = IF assertSequenceFalse(seq) THEN "False:pass"
                     ELSE "False:fail"
  /\ UNCHANGED << fixtureVars, waitVars, metadata, results, pageVars >>

InitAsserts ==
  /\ FixtureInit
  /\ INTEGRATION_TESTS /\ ~SELENIUM_HEADLESS /\ demoProject /\ demoUser = "stale"
  /\ directory = {} /\ wpc = "idle" /\ polls = 0 /\ observed = {}
  /\ opened = NoFile
  /\ ExtInit

NextAsserts ==
  \/ assertSequenceTrue_call
  \/ assertSequenceFalse_call

SpecAsserts == InitAsserts /\ [][NextAsserts]_vars

\* ------------------------------------------------------------- TestFlavors

\* One statement of a test method: a helper or page call with its arguments.
Instr(op, name, arg) == [op |-> op, name |-> name, arg |-> arg]

\* test_flavor_create without the flavor_delete() call
test_flavor_create_no_delete ==
  << Instr("flavor_create", FLAVOR_NAME, {}) >>

\* test_flavor_create: flavor_create(); flavor_delete()
test_flavor_create ==
  << Instr("flavor_create", FLAVOR_NAME, {}),
     Instr("flavor_delete", FLAVOR_NAME, {}) >>

\* test_flavor_update_metadata without the final assertSequenceTrue(results)
test_flavor_update_metadata_no_matcher ==
  << Instr("flavor_create", FLAVOR_NAME, {}),
     Instr("assert_metadata", FLAVOR_NAME, {"No"}),
     Instr("add_custom_metadata", FLAVOR_NAME, {}),
     Instr("assert_metadata", FLAVOR_NAME, {"Yes"}),
     Instr("check_flavor_metadata", FLAVOR_NAME, {}),
     Instr("flavor_delete", FLAVOR_NAME, {}) >>

\* test_flavor_update_metadata: create, Metadata column 'No', add the two
\* keys, Metadata column 'Yes', check_flavor_metadata, delete, and only then
\* assertSequenceTrue(results).
test_flavor_update_metadata ==
  << Instr("flavor_create", FLAVOR_NAME, {}),
     Instr("assert_metadata", FLAVOR_NAME, {"No"}),
     Instr("add_custom_metadata", FLAVOR_NAME, {}),
     Instr("assert_metadata", FLAVOR_NAME, {"Yes"}),
     Instr("check_flavor_metadata", FLAVOR_NAME, {}),
     Instr("flavor_delete", FLAVOR_NAME, {}),
     Instr("assertSequenceTrue", "", {}) >>

\* test_edit_flavor: create, rename to 'new-' + FLAVOR_NAME with the three
\* assertions, delete under the new name.
test_edit_flavor ==
  << Instr("flavor_create", FLAVOR_NAME, {}),
     Instr("edit_flavor", FLAVOR_NAME, {NEW_FLAVOR_NAME}),
     Instr("flavor_delete", NEW_FLAVOR_NAME, {}) >>

\* test_modify_flavor_access without the log_out before the demo login
test_modify_flavor_access_no_logout ==
  << Instr("flavor_create", FLAVOR_NAME, {"admin"}),
     Instr("assert_available", FLAVOR_NAME, {"in"}),
     Instr("login", DEMO_NAME, {DEMO_PROJECT}),
     Instr("assert_available", FLAVOR_NAME, {"not in"}),
     Instr("log_out", "", {}),
     Instr("login", ADMIN_NAME, {ADMIN_PROJECT}),
     Instr("flavor_delete", FLAVOR_NAME, {}) >>

\* test_modify_flavor_access
test_modify_flavor_access ==
  << Instr("flavor_create", FLAVOR_NAME, {"admin"}),
     Instr("assert_available", FLAVOR_NAME, {"in"}),
     Instr("log_out", "", {}),
     Instr("login", DEMO_NAME, {DEMO_PROJECT}),
     Instr("assert_available", FLAVOR_NAME, {"not in"}),
     Instr("log_out", "", {}),
     Instr("login", ADMIN_NAME, {ADMIN_PROJECT}),
     Instr("flavor_delete", FLAVOR_NAME, {}) >>

\* test_delete_flavors without names.pop(): the first call names all three
test_delete_flavors_no_pop ==
  << Instr("flavor_create", "flavor0", {}),
     Instr("flavor_create", "flavor1", {}),
     Instr("flavor_create", "flavor2", {}),
     Instr("delete_flavors", "", {"flavor0", "flavor1", "flavor2"}),
     Instr("delete_flavors", "", {"flavor0", "flavor1"}) >>

\* test_delete_flavors: three flavors FLAVOR_NAME + str(i) are created, the
\* last one (names.pop()) is deleted alone, then the other two together.
test_delete_flavors ==
  << Instr("flavor_create", "flavor0", {}),
     Instr("flavor_create", "flavor1", {}),
     Instr("flavor_create", "flavor2", {}),
     Instr("delete_flavors", "", {"flavor2"}),
     Instr("delete_flavors", "", {"flavor0", "flavor1"}) >>

Program(m) ==
  CASE m = "test_flavor_create" -> test_flavor_create
    [] m = "test_flavor_update_metadata" -> test_flavor_update_metadata
    [] m = "test_edit_flavor" -> test_edit_flavor
    [] m = "test_modify_flavor_access" -> test_modify_flavor_access
    [] m = "test_delete_flavors" -> test_delete_flavors
    [] OTHER -> << >>

\* The statement the running TestFlavors test is about to execute
AtOp(op) ==
  /\ pc = "test" /\ cls = "TestFlavors"
  /\ step < Len(Program(method))
  /\ Program(method)[step + 1].op = op

Cur == Program(method)[step + 1]

\* What the dashboard shows after a form was submitted: whether the change
\* took effect, and the success and error messages found.
Responses == [applied : BOOLEAN, success : BOOLEAN, error : BOOLEAN]

\* The flavors offered by the launch-instance form in project p
Available(p) == {f \in flavors : f \notin private \/ p = ADMIN_PROJECT}

Op(op, names, arg, success, error, returned) ==
  [op |-> op, names |-> names, arg |-> arg, success |-> success,
   error |-> error, returned |-> returned]

\* The statement returned: the test goes on, or returns after the last one.
StepReturns ==
  /\ step' = step + 1
  /\ IF step + 1 = Len(Program(method))
       THEN pc' = "tearDown" /\ phase' = "tearDown"
       ELSE UNCHANGED << pc, phase >>
  /\ UNCHANGED << exc, reported, hookIdx, hookCalls, hookBodies >>

StepRaises(e) == step' = step /\ Raise(e)

testFrame ==
  << waitVars, otherVars, demoUserRun, INTEGRATION_TESTS, SELENIUM_HEADLESS, called_funcs, cls, method,
     crashed, hooks, vdisplay, driver, sessions, screencapture, demoProject,
     demoUser, reportDir, artifacts, details, setUpDone, tdLogout >>

\* The (flavor, key) pairs that stay when the flavors in names are deleted
MetadataWithout(names) == {m \in metadata : m[1] \notin names}

\* FlavorsPage.get_metadata_column_value: 'Yes' when the flavor has metadata
get_metadata_column_value(name) ==
  IF \E m \in metadata : m[1] = name THEN "Yes" ELSE "No"

\* FlavorsPage.check_flavor_metadata: one boolean per key of new_metadata
check_flavor_metadata(name) ==
  [i \in 1..Len(MetadataKeys) |-> << name, MetadataKeys[i] >> \in metadata]

\* The three assertions of flavor_create
flavor_create_asserts(r, name, present) == r.success /\ ~r.error /\ present

\* TestFlavors.flavor_create: go to the flavors page (admin only), submit the
\* create form, assert a success message, no error message and the row.
flavor_create ==
  /\ AtOp("flavor_create")
  /\ UNCHANGED << testFrame, loggedIn, project, metadata, results >>
  /\ \/ /\ StepRaises("WebDriverException")
        /\ lastOp' = Op("flavor_create", {Cur.name}, Cur.arg, FALSE, FALSE, FALSE)
        /\ UNCHANGED << flavors, private >>
     \/ /\ loggedIn = ADMIN_NAME
        /\ \E r \in Responses :
             /\ r.applied => Cur.name \notin flavors
             /\ flavors' = IF r.applied THEN flavors \cup {Cur.name} ELSE flavors
             /\ private' = IF r.applied /\ Cur.arg # {}
                             THEN private \cup {Cur.name} ELSE private
             /\ IF flavor_create_asserts(r, Cur.name, Cur.name \in flavors')
                  THEN /\ StepReturns
                       /\ lastOp' = Op("flavor_create", {Cur.name}, Cur.arg,
                                       r.success, r.error, TRUE)
                  ELSE /\ StepRaises("MismatchError")
                       /\ lastOp' = Op("flavor_create", {Cur.name}, Cur.arg,
                                       FALSE, FALSE, FALSE)

\* flavor_delete without its last assertion (is_flavor_present)
flavor_delete_asserts_no_row_check(r, name, present) == r.success /\ ~r.error

\* The three assertions of flavor_delete
flavor_delete_asserts(r, name, present) == r.success /\ ~r.error /\ ~present

\* TestFlavors.flavor_delete: the row must be there to be deleted.
flavor_delete ==
  /\ AtOp("flavor_delete")
  /\ UNCHANGED << testFrame, loggedIn, project, results >>
  /\ \/ /\ StepRaises("WebDriverException")
        /\ lastOp' = Op("flavor_delete", {Cur.name}, Cur.arg, FALSE, FALSE, FALSE)
        /\ UNCHANGED << flavors, private, metadata >>
     \/ /\ loggedIn = ADMIN_NAME
        /\ Cur.name \in flavors
        /\ \E r \in Responses :
             /\ flavors' = IF r.applied THEN flavors \ {Cur.name} ELSE flavors
             /\ private' = IF r.applied THEN private \ {Cur.name} ELSE private
             /\ metadata' = IF r.applied THEN MetadataWithout({Cur.name})
                             ELSE metadata
             /\ IF flavor_delete_asserts(r, Cur.name, Cur.name \in flavors')
                  THEN /\ StepReturns
                       /\ lastOp' = Op("flavor_delete", {Cur.name}, Cur.arg,
                                       r.success, r.error, TRUE)
                  ELSE /\ StepRaises("MismatchError")
                       /\ lastOp' = Op("flavor_delete", {Cur.name}, Cur.arg,
                                       FALSE, FALSE, FALSE)

\* test_delete_flavors, one delete_flavors(*names) call with its assertions:
\* every named row is marked (it must be there), the dashboard deletes some of
\* the marked rows and no other.
delete_flavors ==
  /\ AtOp("delete_flavors")
  /\ UNCHANGED << testFrame, loggedIn, project, results >>
  /\ \/ /\ StepRaises("WebDriverException")
        /\ lastOp' = Op("delete_flavors", Cur.arg, {}, FALSE, FALSE, FALSE)
        /\ UNCHANGED << flavors, private, metadata >>
     \/ /\ loggedIn = ADMIN_NAME
        /\ Cur.arg \subseteq flavors
        /\ \E deleted \in SUBSET Cur.arg, success \in BOOLEAN, error \in BOOLEAN :
             /\ flavors' = flavors \ deleted
             /\ private' = private \ deleted
             /\ metadata' = MetadataWithout(deleted)
             /\ IF success /\ ~error /\ Cur.arg \cap flavors' = {}
                  THEN /\ StepReturns
                       /\ lastOp' = Op("delete_flavors", Cur.arg, {}, success,
                                       error, TRUE)
                  ELSE /\ StepRaises("MismatchError")
                       /\ lastOp' = Op("delete_flavors", Cur.arg, {}, FALSE,
                                       FALSE, FALSE)

\* assert FLAVOR_NAME [not] in self._available_flavors()
assert_available ==
  /\ AtOp("assert_available")
  /\ UNCHANGED << testFrame, loggedIn, project, flavors, private, metadata,
                  results >>
  /\ \/ /\ StepRaises("WebDriverException")
        /\ lastOp' = Op("assert_available", {Cur.name}, Cur.arg, FALSE, FALSE,
                        FALSE)
     \/ /\ loggedIn # "none"
        /\ lastOp' = Op("assert_available", {Cur.name}, Cur.arg, FALSE, FALSE,
                        (Cur.name \in Available(project)) <=> (Cur.arg = {"in"}))
        /\ IF (Cur.name \in Available(project)) <=> (Cur.arg = {"in"})
             THEN StepReturns
             ELSE StepRaises("AssertionError")

\* self.home_pg.log_out()
log_out ==
  /\ AtOp("log_out")
  /\ UNCHANGED << testFrame, flavors, private, metadata, results >>
  /\ \/ /\ StepRaises("WebDriverException")
        /\ lastOp' = Op("log_out", {}, {}, FALSE, FALSE, FALSE)
        /\ UNCHANGED << loggedIn, project >>
     \/ /\ loggedIn # "none"
        /\ loggedIn' = "none" /\ project' = "none"
        /\ lastOp' = Op("log_out", {}, {}, FALSE, FALSE, TRUE)
        /\ StepReturns

\* self.home_pg = self.login_pg.login(name, password);
\* self.home_pg.change_project(project)
login ==
  /\ AtOp("login")
  /\ UNCHANGED << testFrame, flavors, private, metadata, results >>
  /\ \E fail \in {"none", "login", "project"} :
       /\ fail # "login" => CanLogin(Cur.name)
       /\ loggedIn' = IF fail = "login" THEN loggedIn ELSE Cur.name
       /\ project' = CASE fail = "login" -> project
                       [] fail = "project" -> "default"
                       [] OTHER -> CHOOSE p \in Cur.arg : TRUE
       /\ lastOp' = Op("login", {Cur.name}, Cur.arg, FALSE, FALSE, fail = "none")
       /\ IF fail = "none" THEN StepReturns
          ELSE StepRaises("WebDriverException")

\* self.assertTrue(flavors_page.get_metadata_column_value(name) == 'No'/'Yes')
assert_metadata ==
  /\ AtOp("assert_metadata")
  /\ UNCHANGED << testFrame, loggedIn, project, flavors, private, metadata,
                  results >>
  /\ \/ /\ StepRaises("WebDriverException")
        /\ lastOp' = Op("assert_metadata", {Cur.name}, Cur.arg, FALSE, FALSE,
                        FALSE)
     \/ /\ loggedIn = ADMIN_NAME
        /\ Cur.name \in flavors
        /\ lastOp' = Op("assert_metadata", {Cur.name}, Cur.arg, FALSE, FALSE,
                        Cur.arg = {get_metadata_column_value(Cur.name)})
        /\ IF Cur.arg = {get_metadata_column_value(Cur.name)}
             THEN StepReturns
             ELSE StepRaises("MismatchError")

\* flavors_page.add_custom_metadata(name, new_metadata): the update-metadata
\* form is filled and saved; the dashboard stores some of the keys.  The test
\* looks at no message afterwards.
add_custom_metadata ==
  /\ AtOp("add_custom_metadata")
  /\ UNCHANGED << testFrame, loggedIn, project, flavors, private, results >>
  /\ \/ /\ StepRaises("WebDriverException")
        /\ lastOp' = Op("add_custom_metadata", {Cur.name}, {}, FALSE, FALSE,
                        FALSE)
        /\ UNCHANGED metadata
     \/ /\ loggedIn = ADMIN_NAME
        /\ Cur.name \in flavors
        /\ \E stored \in SUBSET {MetadataKeys[i] : i \in 1..Len(MetadataKeys)} :
             metadata' = metadata \cup {<< Cur.name, k >> : k \in stored}
        /\ lastOp' = Op("add_custom_metadata", {Cur.name}, {}, FALSE, FALSE,
                        TRUE)
        /\ StepReturns

\* results = flavors_page.check_flavor_metadata(name, new_metadata)
check_flavor_metadata_call ==
  /\ AtOp("check_flavor_metadata")
  /\ UNCHANGED << testFrame, loggedIn, project, flavors, private, metadata >>
  /\ \/ /\ StepRaises("WebDriverException")
        /\ lastOp' = Op("check_flavor_metadata", {Cur.name}, {}, FALSE, FALSE,
                        FALSE)
        /\ UNCHANGED results
     \/ /\ loggedIn = ADMIN_NAME
        /\ Cur.name \in flavors
        /\ results' = check_flavor_metadata(Cur.name)
        /\ lastOp' = Op("check_flavor_metadata", {Cur.name}, {}, FALSE, FALSE,
                        TRUE)
        /\ StepReturns

\* self.assertSequenceTrue(results), the last statement of
\* test_flavor_update_metadata
assertSequenceTrue_results ==
  /\ AtOp("assertSequenceTrue")
  /\ UNCHANGED << testFrame, loggedIn, project, flavors, private, metadata,
                  results >>
  /\ lastOp' = Op("assertSequenceTrue", {}, {}, FALSE, FALSE,
                  assertSequenceTrue(results))
  /\ IF assertSequenceTrue(results)
       THEN StepReturns
       ELSE StepRaises("MismatchError")

\* test_edit_flavor without assertTrue(is_flavor_present(new_flavor_name))
edit_flavor_asserts_no_row_check(r, new_name, present) == r.success /\ ~r.error

\* The three assertions after edit_flavor in test_edit_flavor
edit_flavor_asserts(r, new_name, present) == r.success /\ ~r.error /\ present

\* flavors_page.edit_flavor(name, new_name) with the assertions that follow:
\* the row must be there to be edited; the dashboard renames it, unless it
\* refuses (the new name is taken, or another error).
edit_flavor ==
  /\ AtOp("edit_flavor")
  /\ UNCHANGED << testFrame, loggedIn, project, results >>
  /\ \/ /\ StepRaises("WebDriverException")
        /\ lastOp' = Op("edit_flavor", Cur.arg, {}, FALSE, FALSE, FALSE)
        /\ UNCHANGED << flavors, private, metadata >>
     \/ /\ loggedIn = ADMIN_NAME
        /\ Cur.name \in flavors
        /\ \E r \in Responses, new_name \in Cur.arg :
             /\ r.applied => new_name \notin flavors
             /\ flavors' = IF r.applied
                             THEN (flavors \ {Cur.name}) \cup {new_name}
                             ELSE flavors
             /\ private' = IF r.applied /\ Cur.name \in private
                             THEN (private \ {Cur.name}) \cup {new_name}
                             ELSE private
             /\ metadata' =
                  IF r.applied
                    THEN {<< IF m[1] = Cur.name THEN new_name ELSE m[1], m[2] >> :
                            m \in metadata}
                    ELSE metadata
             /\ IF edit_flavor_asserts(r, new_name, new_name \in flavors')
                  THEN /\ StepReturns
                       /\ lastOp' = Op("edit_flavor", Cur.arg, {}, r.success,
                                       r.error, TRUE)
                  ELSE /\ StepRaises("MismatchError")
                       /\ lastOp' = Op("edit_flavor", Cur.arg, {}, FALSE, FALSE,
                                       FALSE)

\* ------------------------------------------------------------ failure hooks

\* The hook returned: the runner calls the next one, or leaves the hooks.
HookReturns(h) ==
  /\ hookCalls' = hookCalls \cup {h}
  /\ UNCHANGED << crashed, reported >>
  /\ IF hookIdx = Len(HookOrder)
       THEN /\ pc' = AfterHooks /\ hookIdx' = 0
            /\ phase' = IF phase = "test" THEN "tearDown" ELSE phase
       ELSE /\ pc' = pc /\ hookIdx' = hookIdx + 1 /\ phase' = phase

\* The hook raised: the exception leaves onException and the runner with it;
\* the remaining hooks are not called (tearDown still runs, in a finally).
HookRaises(h, e) ==
  /\ hookCalls' = hookCalls \cup {h}
  /\ crashed' = TRUE
  /\ reported' = e
  /\ pc' = AfterHooks /\ hookIdx' = 0
  /\ phase' = IF phase = "test" THEN "tearDown" ELSE phase

\* BaseTestCase.log_exception: an exception of the block becomes a detail.
log_exception(label, blockRaised) ==
  details' = IF blockRaised THEN details \cup {label} ELSE details

\* _attach_page_source, _attach_screenshot, _attach_browser_log and
\* _attach_test_log: _test_report_dir is evaluated (and the directory made)
\* before log_exception is entered; the artifact is written inside it.
FileHook(h, file, label, needsDriver) ==
  /\ pc = "hooks" /\ hookIdx \in 1..Len(HookOrder) /\ HookOrder[hookIdx] = h
  /\ UNCHANGED << demoUserRun, extVars, waitVars, INTEGRATION_TESTS, SELENIUM_HEADLESS, called_funcs,
                  cls, method, step, exc, hooks, vdisplay, driver, sessions,
                  screencapture, loggedIn, project, demoProject, demoUser,
                  flavors, private, lastOp, setUpDone, tdLogout >>
  /\ IF ignore_skip(exc)
       THEN /\ HookReturns(h)
            /\ UNCHANGED << hookBodies, reportDir, artifacts, details >>
       ELSE /\ hookBodies' = hookBodies \cup {h}
            /\ \E made \in BOOLEAN, written \in BOOLEAN :
                 /\ reportDir => made
                 /\ (needsDriver /\ driver # "open") => ~written
                 /\ ~made => ~written
                 /\ reportDir' = made
                 /\ IF ~made
                      THEN /\ HookRaises(h, "OSError")
                           /\ UNCHANGED << artifacts, details >>
                      ELSE /\ artifacts' = IF written THEN artifacts \cup {file}
                                           ELSE artifacts
                           /\ log_exception(label, ~written)
                           /\ HookReturns(h)

attach_page_source ==
  FileHook("page_source", "page.html", "Attach page source", TRUE)

attach_screenshot ==
  FileHook("screenshot", "screenshot.png", "Attach screenshot", TRUE)

attach_browser_log ==
  FileHook("browser_log", "browser.log", "Attach browser log", TRUE)

attach_test_log ==
  FileHook("test_log", "test.log", "Attach test log", FALSE)

\* _attach_video: the recorder is stopped and the file copied inside
\* log_exception, _test_report_dir included.
attach_video ==
  /\ pc = "hooks" /\ hookIdx \in 1..Len(HookOrder)
  /\ HookOrder[hookIdx] = "video"
  /\ UNCHANGED << demoUserRun, extVars, waitVars, INTEGRATION_TESTS, SELENIUM_HEADLESS, called_funcs,
                  cls, method, step, exc, hooks, vdisplay, driver, sessions,
                  loggedIn, project, demoProject, demoUser, flavors, private,
                  lastOp, setUpDone, tdLogout >>
  /\ IF ignore_skip(exc)
       THEN /\ HookReturns("video")
            /\ UNCHANGED << hookBodies, reportDir, artifacts, details,
                            screencapture >>
       ELSE /\ hookBodies' = hookBodies \cup {"video"}
            /\ screencapture' = VideoRecorder_stop(screencapture)
            /\ \E made \in BOOLEAN, copied \in BOOLEAN :
                 /\ reportDir => made
                 /\ ~made => ~copied
                 /\ reportDir' = made
                 /\ artifacts' = IF copied THEN artifacts \cup {"video.mp4"}
                                 ELSE artifacts
                 /\ log_exception("Attach video", ~copied)
                 /\ HookReturns("video")

\* ------------------------------------------------- VideoRecorder callers

\* self.screencapture.start() called by the running test; Popen may raise, and
\* then nothing is launched.
screencapture_start ==
  /\ pc = "test" /\ cls = "TestCase" /\ screencapture.present
  /\ screencapture.launches < MaxLaunches
  /\ \E popen \in BOOLEAN :
       screencapture' = IF popen \/ screencapture.is_launched
                          THEN VideoRecorder_start(screencapture)
                          ELSE screencapture
  /\ UNCHANGED << extVars, waitVars, INTEGRATION_TESTS, SELENIUM_HEADLESS, called_funcs,
                  cls, method, pc, phase, step, exc, reported, crashed, hooks,
                  hookIdx, hookCalls, hookBodies, vdisplay, driver, sessions,
                  loggedIn, project, demoProject, demoUser, flavors, private,
                  lastOp, reportDir, artifacts, details, setUpDone, tdLogout,
                  demoUserRun >>

\* self.screencapture.stop() called by the running test
screencapture_stop ==
  /\ pc = "test" /\ cls = "TestCase" /\ screencapture.present
  /\ screencapture' = VideoRecorder_stop(screencapture)
  /\ UNCHANGED << extVars, waitVars, INTEGRATION_TESTS, SELENIUM_HEADLESS, called_funcs,
                  cls, method, pc, phase, step, exc, reported, crashed, hooks,
                  hookIdx, hookCalls, hookBodies, vdisplay, driver, sessions,
                  loggedIn, project, demoProject, demoUser, flavors, private,
                  lastOp, reportDir, artifacts, details, setUpDone, tdLogout,
                  demoUserRun >>

\* ------------------------------------- ApiaccessPage.get_credentials_from_file

\* The template argument: the suffix of the downloaded openrc file
Template == << "-openrc.sh" >>

\* What the download directory may hold: finished downloads, a partial
\* download and a sub-directory whose name ends like a download.
DirEntries ==
  { [name |-> << "admin", "-openrc.sh" >>, isfile |-> TRUE],
    [name |-> << "demo", "-openrc.sh" >>, isfile |-> TRUE],
    [name |-> << "admin", "-openrc.sh", ".part" >>, isfile |-> TRUE],
    [name |-> << "old", "-openrc.sh" >>, isfile |-> FALSE] }

\* str.endswith
endswith(name, suffix) ==
  /\ Len(name) >= Len(suffix)
  /\ SubSeq(name, Len(name) - Len(suffix) + 1, Len(name)) = suffix

\* list_of_files without the endswith filter
list_of_files_any_name(dir, template) == {f \in dir : f.isfile}

\* ApiaccessPage.list_of_files: the regular files whose name ends with template
list_of_files(dir, template) ==
  {f \in dir : f.isfile /\ endswith(f.name, template)}

\* The browser and other processes add and remove files while the page waits.
DirectoryChanges ==
  /\ wpc \in {"waiting", "list"}
  /\ \E e \in DirEntries :
       directory' = IF e \in directory THEN directory \ {e}
                    ELSE directory \cup {e}
  /\ UNCHANGED << fixtureVars, extVars, wpc, polls, observed, opened >>

\* _wait_until: one evaluation of the condition; the wait returns when it is
\* truthy and raises TimeoutException when the timeout has elapsed.
wait_until ==
  /\ wpc = "waiting"
  /\ IF Cardinality(list_of_files(directory, Template)) > 0
       THEN wpc' = "list" /\ observed' = directory /\ polls' = polls
       ELSE /\ polls' = polls + 1
            /\ wpc' = IF polls + 1 >= WaitPolls THEN "timeout" ELSE wpc
            /\ observed' = observed
  /\ UNCHANGED << fixtureVars, extVars, directory, opened >>

\* get_credentials_from_file after the wait: list_of_files(...)[0] is opened;
\* os.listdir gives the entries in no particular order.
get_credentials_from_file ==
  /\ wpc = "list"
  /\ IF list_of_files(directory, Template) = {}
       THEN wpc' = "error" /\ opened' = opened
       ELSE /\ wpc' = "opened"
            /\ \E f \in list_of_files(directory, Template) : opened' = f
  /\ UNCHANGED << fixtureVars, extVars, directory, polls, observed >>

InitWait ==
  /\ FixtureInit
  /\ ExtInit
  /\ INTEGRATION_TESTS /\ ~SELENIUM_HEADLESS /\ demoProject /\ demoUser = "stale"
  /\ directory \in SUBSET DirEntries
  /\ wpc = "waiting" /\ polls = 0 /\ observed = {} /\ opened = NoFile

NextWait ==
  \/ DirectoryChanges
  \/ wait_until
  \/ get_credentials_from_file

SpecWait == InitWait /\ [][NextWait]_vars

Next ==
  \/ StartTest
  \/ BaseTestCase_setUp
  \/ TestCase_create_demo_user
  \/ TestCase_setUp
  \/ GenericTest
  \/ flavor_create
  \/ flavor_delete
  \/ delete_flavors
  \/ assert_available
  \/ log_out
  \/ login
  \/ TestCase_tearDown
  \/ attach_page_source
  \/ attach_screenshot
  \/ attach_video
  \/ attach_browser_log
  \/ attach_test_log

Spec == Init /\ [][Next]_vars

\* A run of the TestFlavors class against a dashboard that has the demo
\* project, with INTEGRATION_TESTS set.
InitFlavors ==
  /\ Init
  /\ INTEGRATION_TESTS /\ ~SELENIUM_HEADLESS /\ demoProject /\ demoUser = "stale"

NextFlavors ==
  \/ StartFlavorsTest
  \/ BaseTestCase_setUp
  \/ TestCase_create_demo_user
  \/ TestCase_setUp
  \/ flavor_create
  \/ flavor_delete
  \/ delete_flavors
  \/ assert_available
  \/ log_out
  \/ login
  \/ assert_metadata
  \/ add_custom_metadata
  \/ check_flavor_metadata_call
  \/ assertSequenceTrue_results
  \/ edit_flavor
  \/ TestCase_tearDown
  \/ attach_page_source
  \/ attach_screenshot
  \/ attach_video
  \/ attach_browser_log
  \/ attach_test_log

SpecFlavors == InitFlavors /\ [][NextFlavors]_vars

NextRecorder ==
  \/ Next
  \/ screencapture_start
  \/ screencapture_stop

SpecRecorder == Init /\ [][NextRecorder]_vars

\* ------------------------------------- UsersPage / VolumesPage / ApiaccessPage

\* volumespage.py: VOLUME_SOURCE_TYPE, IMAGE_SOURCE_TYPE
VOLUME_SOURCE_TYPE == "Volume"

IMAGE_SOURCE_TYPE == "Image"

\* Values a caller may pass as volume_source_type
SourceTypes == {IMAGE_SOURCE_TYPE, VOLUME_SOURCE_TYPE, "Snapshot"}

\* UsersTable: the field lists its forms are constructed with
CREATE_USER_FORM_FIELDS ==
  << "name", "email", "password", "confirm_password", "project", "role_id" >>

EDIT_USER_FORM_FIELDS == << "name", "email", "project" >>

CHANGE_PASSWORD_FORM_FIELDS == << "password", "confirm_password", "name" >>

\* VolumesTable: the field lists its forms are constructed with
CREATE_VOLUME_FROM_IMAGE_FORM_FIELDS ==
  << "name", "description", "volume_source_type", "image_source", "type",
     "size", "availability_zone" >>

EDIT_VOLUME_FORM_FIELDS == << "name", "description" >>

CREATE_VOLUME_SNAPSHOT_FORM_FIELDS == << "name", "description" >>

EXTEND_VOLUME_FORM_FIELDS == << "new_size" >>

\* The forms constructed with field_mappings, by the name of their list
MappedForms ==
  { "CREATE_USER_FORM_FIELDS", "EDIT_USER_FORM_FIELDS",
    "CHANGE_PASSWORD_FORM_FIELDS", "CREATE_VOLUME_FROM_IMAGE_FORM_FIELDS",
    "EDIT_VOLUME_FORM_FIELDS", "CREATE_VOLUME_SNAPSHOT_FORM_FIELDS",
    "EXTEND_VOLUME_FORM_FIELDS" }

\* FormRegion(field_mappings=...): the names the form exposes
field_mappings(form) ==
  LET list == CASE form = "CREATE_USER_FORM_FIELDS" -> CREATE_USER_FORM_FIELDS
                [] form = "EDIT_USER_FORM_FIELDS" -> EDIT_USER_FORM_FIELDS
                [] form = "CHANGE_PASSWORD_FORM_FIELDS"
                     -> CHANGE_PASSWORD_FORM_FIELDS
                [] form = "CREATE_VOLUME_FROM_IMAGE_FORM_FIELDS"
                     -> CREATE_VOLUME_FROM_IMAGE_FORM_FIELDS
                [] form = "EDIT_VOLUME_FORM_FIELDS" -> EDIT_VOLUME_FORM_FIELDS
                [] form = "CREATE_VOLUME_SNAPSHOT_FORM_FIELDS"
                     -> CREATE_VOLUME_SNAPSHOT_FORM_FIELDS
                [] form = "EXTEND_VOLUME_FORM_FIELDS"
                     -> EXTEND_VOLUME_FORM_FIELDS
                [] OTHER -> << >>
  IN {list[i] : i \in 1..Len(list)}

\* FormRegion attribute lookup: a form exposes a control for the names of its
\* field list only; any other name raises AttributeError.
FormRegion_getattr(form, name) == name \in field_mappings(form)

\* What an operation does to a form: open it, get a field, write a field,
\* read a field, submit, cancel.
Event(kind, form, field) == [kind |-> kind, form |-> form, field |-> field]

\* A form operation as the code runs it: the events in order, and the
\* exception that ends it after the last event, if any.
Trace(evs, raises) == [events |-> evs, raises |-> raises]

\* Python values whose type matters in a comparison
Str(s) == [type |-> "str", val |-> << s >>]

Tuple(a, b) == [type |-> "tuple", val |-> << a, b >>]

None == [type |-> "NoneType", val |-> << >>]

\* Python's != : values of different types are never equal
PyNotEqual(a, b) == IF a.type # b.type THEN TRUE ELSE a.val # b.val

\* VolumesPage._get_source_name: the (control, value) pair of the source, None
\* for a source type that is neither 'Image' nor 'Volume'
get_source_name(source) ==
  IF source = IMAGE_SOURCE_TYPE THEN Tuple("image_source", "image_name")
  ELSE IF source = VOLUME_SOURCE_TYPE THEN Tuple("volume_id", "volume_source")
  ELSE None

\* The optional statement: one event when the argument was given
When(cond, ev) == IF cond THEN << ev >> ELSE << >>

\* VolumesPage.create_volume.  volume_source_type is rebound to what
\* _get_source_name returned before it is compared with "Volume".
create_volume(given, source) ==
  LET f == "CREATE_VOLUME_FROM_IMAGE_FORM_FIELDS"
      head == << Event("open", f, ""), Event("write", f, "name") >>
                \o When("description" \in given, Event("write", f, "description"))
                \o << Event("write", f, "volume_source_type") >>
      volume_source_type == get_source_name(source)
  IN IF volume_source_type = None
       THEN Trace(head, "TypeError")
     ELSE IF ~FormRegion_getattr(f, volume_source_type.val[1])
       THEN Trace(head \o << Event("get", f, volume_source_type.val[1]) >>,
                  "AttributeError")
     ELSE Trace(head
                \o << Event("get", f, volume_source_type.val[1]),
                      Event("write", f, volume_source_type.val[1]),
                      Event("write", f, "size") >>
                \o (IF PyNotEqual(volume_source_type, Str("Volume"))
                      THEN << Event("write", f, "type"),
                              Event("write", f, "availability_zone") >>
                      ELSE << >>)
                \o << Event("submit", f, "") >>,
                "none")

\* VolumesPage.edit_volume
edit_volume(given) ==
  LET f == "EDIT_VOLUME_FORM_FIELDS"
  IN Trace(<< Event("open", f, "") >>
           \o When("new_name" \in given, Event("write", f, "name"))
           \o When("description" \in given, Event("write", f, "description"))
           \o << Event("submit", f, "") >>, "none")

\* VolumesPage.create_volume_snapshot
create_volume_snapshot(given) ==
  LET f == "CREATE_VOLUME_SNAPSHOT_FORM_FIELDS"
  IN Trace(<< Event("open", f, ""), Event("write", f, "name") >>
           \o When("description" \in given, Event("write", f, "description"))
           \o << Event("submit", f, "") >>, "none")

\* VolumesPage.extend_volume
extend_volume ==
  LET f == "EXTEND_VOLUME_FORM_FIELDS"
  IN Trace(<< Event("open", f, ""), Event("write", f, "new_size"),
              Event("submit", f, "") >>, "none")

\* VolumesPage.delete_volume and UsersPage.delete_user: the confirmation form
confirm_delete ==
  Trace(<< Event("open", "BaseFormRegion", ""),
           Event("submit", "BaseFormRegion", "") >>, "none")

\* UsersPage.create_user
create_user(given) ==
  LET f == "CREATE_USER_FORM_FIELDS"
  IN Trace(<< Event("open", f, ""), Event("write", f, "name") >>
           \o When("email" \in given, Event("write", f, "email"))
           \o << Event("write", f, "password"),
                 Event("write", f, "confirm_password"),
                 Event("write", f, "project"),
                 Event("write", f, "role_id"),
                 Event("submit", f, "") >>, "none")

\* UsersPage.edit_user
edit_user(given) ==
  LET f == "EDIT_USER_FORM_FIELDS"
  IN Trace(<< Event("open", f, "") >>
           \o When("new_name" \in given, Event("write", f, "name"))
           \o When("new_email" \in given, Event("write", f, "email"))
           \o When("new_primary_project" \in given, Event("write", f, "project"))
           \o << Event("submit", f, "") >>, "none")

\* UsersPage.get_user_info that closes the form with submit
get_user_info_submits ==
  LET f == "EDIT_USER_FORM_FIELDS"
  IN Trace(<< Event("open", f, ""), Event("read", f, "name"),
              Event("read", f, "email"), Event("read", f, "project"),
              Event("submit", f, "") >>, "none")

\* UsersPage.get_user_info
get_user_info ==
  LET f == "EDIT_USER_FORM_FIELDS"
  IN Trace(<< Event("open", f, ""), Event("read", f, "name"),
              Event("read", f, "email"), Event("read", f, "project"),
              Event("cancel", f, "") >>, "none")

\* UsersPage.change_password
change_password ==
  LET f == "CHANGE_PASSWORD_FORM_FIELDS"
  IN Trace(<< Event("open", f, ""), Event("write", f, "password"),
              Event("write", f, "confirm_password"),
              Event("submit", f, "") >>, "none")

\* ApiaccessPage.view_user_credentials
view_user_credentials ==
  Trace(<< Event("open", "ReadOnlyFormRegion", ""),
           Event("read", "ReadOnlyFormRegion", "get_form_fields"),
           Event("cancel", "ReadOnlyFormRegion", "") >>, "none")

\* Names of users and volumes the tests work with
UserNames == {"demo"}

VolumeNames == {"volume"}

User(name, email, primary_project, password) ==
  [name |-> name, email |-> email, project |-> primary_project,
   password |-> password]

UserRows(name) == {u \in users : u.name = name}

\* The operation t is called: any UI step of it may raise, and then the
\* steps after it do not happen; hasRow is false when the table row the
\* operation works on is not there, and it then fails before any form opens.
\* The operation has taken effect on the dashboard (done) when it returned
\* and the dashboard applied what was submitted.
Call(op, args, t, hasRow) ==
  /\ pageOp' = op
  /\ pageArgs' = args
  /\ \E k \in 0..Len(t.events) :
       /\ ~hasRow => k = 0
       /\ events' = SubSeq(t.events, 1, k)
       /\ outcome' = IF k < Len(t.events) THEN "WebDriverException"
                     ELSE IF t.raises = "none" THEN "returned" ELSE t.raises
  /\ UNCHANGED << fixtureVars, waitVars, metadata, results, assertVars >>

Submitted == \E i \in 1..Len(events') : events'[i].kind = "submit"

VolumesPage_create_volume ==
  /\ \E name \in VolumeNames, given \in SUBSET {"description", "volume_size"},
        source \in SourceTypes :
       Call("create_volume", [name |-> name, given |-> given, source |-> source],
            create_volume(given, source), TRUE)
  /\ \E applied \in BOOLEAN :
       volumes' = IF Submitted /\ applied THEN volumes \cup {pageArgs'.name}
                  ELSE volumes
  /\ UNCHANGED users

VolumesPage_edit_volume ==
  /\ \E name \in VolumeNames, given \in SUBSET {"new_name", "description"} :
       Call("edit_volume", [name |-> name, given |-> given, source |-> ""],
            edit_volume(given), name \in volumes)
  /\ \E applied \in BOOLEAN, new_name \in VolumeNames :
       volumes' = IF Submitted /\ applied /\ "new_name" \in pageArgs'.given
                     /\ new_name \notin (volumes \ {pageArgs'.name})
                    THEN (volumes \ {pageArgs'.name}) \cup {new_name}
                    ELSE volumes
  /\ UNCHANGED users

VolumesPage_create_volume_snapshot ==
  /\ \E name \in VolumeNames, given \in SUBSET {"description"} :
       Call("create_volume_snapshot",
            [name |-> name, given |-> given, source |-> ""],
            create_volume_snapshot(given), name \in volumes)
  /\ UNCHANGED << users, volumes >>

VolumesPage_extend_volume ==
  /\ \E name \in VolumeNames :
       Call("extend_volume", [name |-> name, given |-> {}, source |-> ""],
            extend_volume, name \in volumes)
  /\ UNCHANGED << users, volumes >>

VolumesPage_delete_volume ==
  /\ \E name \in VolumeNames :
       Call("delete_volume", [name |-> name, given |-> {}, source |-> ""],
            confirm_delete, name \in volumes)
  /\ \E applied \in BOOLEAN :
       volumes' = IF Submitted /\ applied THEN volumes \ {pageArgs'.name}
                  ELSE volumes
  /\ UNCHANGED users

UsersPage_create_user ==
  /\ \E name \in UserNames, given \in SUBSET {"email"} :
       Call("create_user", [name |-> name, given |-> given, source |-> ""],
            create_user(given), TRUE)
  /\ \E applied \in BOOLEAN :
       users' = IF Submitted /\ applied /\ UserRows(pageArgs'.name) = {}
                  THEN users \cup
                         {User(pageArgs'.name,
                               IF "email" \in pageArgs'.given THEN "email"
                               ELSE "", "project", "password")}
                  ELSE users
  /\ UNCHANGED volumes

UsersPage_edit_user ==
  /\ \E name \in UserNames,
        given \in SUBSET {"new_name", "new_email", "new_primary_project"} :
       Call("edit_user", [name |-> name, given |-> given, source |-> ""],
            edit_user(given), UserRows(name) # {})
  /\ \E applied \in BOOLEAN, new_name \in UserNames :
       users' =
         IF Submitted /\ applied
              /\ ("new_name" \in pageArgs'.given =>
                    UserRows(new_name) \subseteq UserRows(pageArgs'.name))
           THEN (users \ UserRows(pageArgs'.name)) \cup
                  { User(IF "new_name" \in pageArgs'.given THEN new_name
                         ELSE u.name,
                         IF "new_email" \in pageArgs'.given THEN "new_email"
                         ELSE u.email,
                         IF "new_primary_project" \in pageArgs'.given
                           THEN "new_project" ELSE u.project,
                         u.password) : u \in UserRows(pageArgs'.name) }
           ELSE users
  /\ UNCHANGED volumes

UsersPage_get_user_info ==
  /\ \E name \in UserNames :
       Call("get_user_info", [name |-> name, given |-> {}, source |-> ""],
            get_user_info, UserRows(name) # {})
  /\ UNCHANGED << users, volumes >>

UsersPage_change_password ==
  /\ \E name \in UserNames :
       Call("change_password", [name |-> name, given |-> {}, source |-> ""],
            change_password, UserRows(name) # {})
  /\ \E applied \in BOOLEAN :
       users' = IF Submitted /\ applied
                  THEN (users \ UserRows(pageArgs'.name)) \cup
                         { User(u.name, u.email, u.project, "new_passwd") :
                             u \in UserRows(pageArgs'.name) }
                  ELSE users
  /\ UNCHANGED volumes

UsersPage_delete_user ==
  /\ \E name \in UserNames :
       Call("delete_user", [name |-> name, given |-> {}, source |-> ""],
            confirm_delete, UserRows(name) # {})
  /\ \E applied \in BOOLEAN :
       users' = IF Submitted /\ applied THEN users \ UserRows(pageArgs'.name)
                ELSE users
  /\ UNCHANGED volumes

ApiaccessPage_view_user_credentials ==
  /\ Call("view_user_credentials", NoArgs, view_user_credentials, TRUE)
  /\ UNCHANGED << users, volumes >>

InitPages ==
  /\ FixtureInit
  /\ INTEGRATION_TESTS /\ ~SELENIUM_HEADLESS /\ demoProject /\ demoUser = "stale"
  /\ directory = {} /\ wpc = "idle" /\ polls = 0 /\ observed = {}
  /\ opened = NoFile
  /\ ExtInit

NextPages ==
  \/ VolumesPage_create_volume
  \/ VolumesPage_edit_volume
  \/ VolumesPage_create_volume_snapshot
  \/ VolumesPage_extend_volume
  \/ VolumesPage_delete_volume
  \/ UsersPage_create_user
  \/ UsersPage_edit_user
  \/ UsersPage_get_user_info
  \/ UsersPage_change_password
  \/ UsersPage_delete_user
  \/ ApiaccessPage_view_user_credentials

SpecPages == InitPages /\ [][NextPages]_vars

\* ------------------------------------------------------------------ claims

HookSet == {HookOrder[i] : i \in 1..Len(HookOrder)}

\* C1: once TestCase.setUp has completed, tearDown has run by the end of the
\* test; it leaves nobody logged in unless its logout step raised, and the
\* browser session is quit and a started virtual display stopped in every
\* case, the raising one included.
C1_TearDownQuitsSession ==
  /\ (setUpDone /\ pc = "done") => tdLogout # "none"
  /\ (setUpDone /\ tdLogout # "none") =>
       /\ driver = "quit"
       /\ vdisplay # "started"
       /\ SELENIUM_HEADLESS => vdisplay = "stopped"
       /\ tdLogout \in {"done", "skipped"} => loggedIn = "none"

C1_Witness ==
  /\ setUpDone /\ tdLogout = "raised" /\ SELENIUM_HEADLESS
  /\ driver = "quit" /\ vdisplay = "stopped"

\* C2: when TestCase.setUp has returned normally, one browser session was
\* created for the test and TEST_USER_NAME is logged in with HOME_PROJECT
\* selected, in the first test of the process and in every later one.
C2_SetUpPostcondition ==
  (pc = "test" /\ step = 0 /\ lastOp = NoOp) =>
    /\ setUpDone
    /\ sessions = 1 /\ driver = "open"
    /\ loggedIn = TEST_USER_NAME(cls)
    /\ project = HOME_PROJECT(cls)
    /\ demoUserRun \in {"body", "noop"}

C2_Witness ==
  /\ pc = "test" /\ step = 0 /\ lastOp = NoOp
  /\ cls = "TestCase" /\ demoUserRun = "body" /\ loggedIn = DEMO_NAME

\* C3: get_credentials_from_file opens a file only after the wait saw a
\* regular file whose name ends with the template, the opened file is such a
\* file, and a wait that timed out (its condition never held in WaitPolls
\* evaluations) ends without any file opened.
C3_OpensOnlyAfterObserved ==
  /\ wpc \in {"list", "opened", "error"} =>
       \E f \in observed : f.isfile /\ endswith(f.name, Template)
  /\ opened # NoFile =>
       /\ wpc = "opened"
       /\ opened.isfile /\ endswith(opened.name, Template)
  /\ wpc = "timeout" =>
       /\ opened = NoFile /\ observed = {} /\ polls >= WaitPolls

C3_Witness ==
  /\ wpc = "opened" /\ polls > 0
  /\ opened \in observed

\* C4: no failure hook raises: an exception met while producing an artifact
\* becomes a test detail, all five hooks run for a failure that is not a skip,
\* and the failure reported is the original one.
C4_HooksNeverRaise ==
  /\ ~crashed
  /\ (hooks /\ exc \notin {NoExc, "SkipTest"} /\ pc # "hooks") =>
       hookBodies = HookSet

\* C5: a hook called for a SkipTest changes nothing (no report directory, no
\* artifact, no detail, the recorder untouched), and a hook called for any
\* other exception type enters its body.
C5_SkipIgnored ==
  [][ /\ (pc = "hooks" /\ exc = "SkipTest") =>
           /\ UNCHANGED << reportDir, artifacts, details, screencapture >>
           /\ hookBodies' = {}
      /\ (pc = "hooks" /\ exc # "SkipTest") =>
           HookOrder[hookIdx] \in hookBodies' ]_vars

C5_Witness ==
  /\ exc = "SkipTest" /\ hookCalls = HookSet /\ hookBodies = {}
  /\ ~reportDir /\ screencapture.is_launched

\* C6: without INTEGRATION_TESTS setUp raises the skip before a display, a
\* session or a recorder exists; with it, a virtual display is started exactly
\* when SELENIUM_HEADLESS is set.
C6_FlagsGateSetUp ==
  /\ ~INTEGRATION_TESTS =>
       /\ vdisplay = "absent" /\ driver = "absent" /\ sessions = 0
       /\ ~screencapture.present
       /\ pc \in {"idle", "setUp", "done"}
       /\ pc = "done" => reported = "SkipTest"
  /\ (INTEGRATION_TESTS /\ pc \notin {"idle", "setUp"}) =>
       (vdisplay \in {"started", "stopped"} <=> SELENIUM_HEADLESS)

C6_Witness ==
  /\ ~INTEGRATION_TESTS /\ SELENIUM_HEADLESS
  /\ pc = "done" /\ reported = "SkipTest" /\ vdisplay = "absent"

\* C7: a VideoRecorder never has two processes running, is_launched is true
\* exactly when a launched process has not been stopped, no process is
\* signalled twice, and after tearDown nothing is running.
C7_OneRecording ==
  /\ screencapture.running <= 1
  /\ screencapture.is_launched <=> screencapture.running = 1
  /\ screencapture.signals <= screencapture.launches
  /\ screencapture.is_launched <=>
       screencapture.launches = screencapture.signals + 1
  /\ tdLogout # "none" =>
       ~screencapture.is_launched /\ screencapture.running = 0

C7_Witness ==
  /\ pc = "done" /\ tdLogout \in {"done", "skipped"}
  /\ "video" \in hookBodies
  /\ screencapture.launches = 1 /\ screencapture.signals = 1

\* C8: when flavor_create has returned, a success and no error message was
\* shown and the flavor is in the table; when flavor_delete has returned, a
\* success and no error message was shown and the flavor is not in the table.
C8_CreateDeleteRoundTrip ==
  lastOp.returned =>
    /\ lastOp.op = "flavor_create" =>
         lastOp.success /\ ~lastOp.error /\ lastOp.names \subseteq flavors
    /\ lastOp.op = "flavor_delete" =>
         lastOp.success /\ ~lastOp.error /\ lastOp.names \cap flavors = {}

C8_Witness ==
  /\ method = "test_flavor_create" /\ step = 2
  /\ lastOp.returned /\ lastOp.op = "flavor_delete"
  /\ FLAVOR_NAME \notin flavors

\* C9: when a delete_flavors call of test_delete_flavors has returned, success
\* and no error was shown and none of the named flavors is present; after the
\* first call, which names one of the three flavors, the other two are still
\* in the table.
C9_DeleteFlavorsFrame ==
  /\ (lastOp.returned /\ lastOp.op = "delete_flavors") =>
       lastOp.success /\ ~lastOp.error /\ lastOp.names \cap flavors = {}
  /\ (method = "test_delete_flavors" /\ step = 4 /\ lastOp.returned) =>
       /\ {"flavor0", "flavor1"} \subseteq flavors
       /\ "flavor2" \notin flavors

C9_Witness ==
  /\ method = "test_delete_flavors" /\ step = 4 /\ lastOp.returned
  /\ lastOp.op = "delete_flavors" /\ lastOp.names = {"flavor2"}

\* C10: in test_modify_flavor_access the flavor restricted to 'admin' is
\* offered to admin in the admin project and not to demo in the demo project;
\* nobody is logged in when the test logs in, and admin is logged in, in the
\* admin project, when the test deletes the flavor.
C10_FlavorAccess ==
  (method = "test_modify_flavor_access" /\ pc = "test") =>
    /\ (lastOp.returned /\ lastOp.op = "assert_available"
          /\ lastOp.arg = {"in"}) =>
         /\ loggedIn = ADMIN_NAME /\ project = ADMIN_PROJECT
         /\ FLAVOR_NAME \in Available(ADMIN_PROJECT)
    /\ (lastOp.returned /\ lastOp.op = "assert_available"
          /\ lastOp.arg = {"not in"}) =>
         /\ loggedIn = DEMO_NAME /\ project = DEMO_PROJECT
         /\ FLAVOR_NAME \notin Available(DEMO_PROJECT)
    /\ AtOp("login") => loggedIn = "none"
    /\ AtOp("flavor_delete") =>
         loggedIn = ADMIN_NAME /\ project = ADMIN_PROJECT

C10_Witness ==
  /\ method = "test_modify_flavor_access" /\ pc = "test"
  /\ AtOp("flavor_delete") /\ lastOp.returned /\ lastOp.op = "login"
  /\ FLAVOR_NAME \in private

\* C13: assertSequenceTrue passes exactly when every element of the sequence
\* is True and assertSequenceFalse exactly when every element is False; the
\* empty sequence passes both and one differing element fails the matcher.
C13_SequenceMatchers ==
  /\ verdict \in {"True:pass", "True:fail"} =>
       /\ verdict = "True:pass" <=> \A i \in 1..Len(actual) : actual[i] = TRUE
       /\ (\E i \in 1..Len(actual) : actual[i] # TRUE) => verdict = "True:fail"
       /\ actual = << >> => verdict = "True:pass"
  /\ verdict \in {"False:pass", "False:fail"} =>
       /\ verdict = "False:pass" <=> \A i \in 1..Len(actual) : actual[i] = FALSE
       /\ (\E i \in 1..Len(actual) : actual[i] # FALSE) => verdict = "False:fail"
       /\ actual = << >> => verdict = "False:pass"

C13_Witness ==
  /\ verdict = "True:fail" /\ Len(actual) = 3
  /\ actual[1] = TRUE /\ actual[2] = TRUE /\ actual[3] = FALSE

\* C11: in test_flavor_update_metadata the Metadata column of the flavor just
\* created reads 'No'; when the assertion after add_custom_metadata has
\* returned it reads 'Yes'; check_flavor_metadata reports, per key, whether
\* the flavor has it, and the test passes only with True for every key.
C11_MetadataColumn ==
  (cls = "TestFlavors" /\ method = "test_flavor_update_metadata") =>
    /\ (lastOp.returned /\ lastOp.op = "flavor_create") =>
         get_metadata_column_value(FLAVOR_NAME) = "No"
    /\ (lastOp.returned /\ lastOp.op = "assert_metadata") =>
         /\ FLAVOR_NAME \in flavors
         /\ lastOp.arg = {get_metadata_column_value(FLAVOR_NAME)}
         /\ step = 4 => get_metadata_column_value(FLAVOR_NAME) = "Yes"
    /\ (lastOp.returned /\ lastOp.op = "check_flavor_metadata") =>
         /\ Len(results) = Len(MetadataKeys)
         /\ \A i \in 1..Len(MetadataKeys) :
              results[i] <=> << FLAVOR_NAME, MetadataKeys[i] >> \in metadata
    /\ (step = Len(Program(method)) /\ pc \in {"tearDown", "done"}) =>
         /\ Len(results) = Len(MetadataKeys)
         /\ \A i \in 1..Len(results) : results[i] = TRUE

C11_Witness ==
  /\ method = "test_flavor_update_metadata" /\ pc = "done"
  /\ reported = NoExc /\ step = Len(Program(method))
  /\ results = << TRUE, TRUE >> /\ FLAVOR_NAME \notin flavors

\* C12: when edit_flavor and the assertions after it have returned, a success
\* and no error message was shown and the flavor is in the table under the
\* new name; when the flavor_delete that follows has returned, it is not.
C12_EditFlavor ==
  /\ (lastOp.returned /\ lastOp.op = "edit_flavor") =>
       /\ lastOp.success /\ ~lastOp.error
       /\ lastOp.names = {NEW_FLAVOR_NAME}
       /\ NEW_FLAVOR_NAME \in flavors
  /\ (method = "test_edit_flavor" /\ step = 3 /\ lastOp.returned) =>
       /\ lastOp.op = "flavor_delete" /\ lastOp.names = {NEW_FLAVOR_NAME}
       /\ NEW_FLAVOR_NAME \notin flavors

C12_Witness ==
  /\ method = "test_edit_flavor" /\ step = 3 /\ lastOp.returned
  /\ lastOp.op = "flavor_delete" /\ pc = "done" /\ reported = NoExc

\* C19: as long as every TestFlavors test so far passed, no flavor the class
\* creates is in the table between two tests: not when a test has passed,
\* and not when the next one starts.
C19_PassingTestsCleanUp ==
  (/\ reported = NoExc
   /\ \/ pc \in {"idle", "setUp", "demo_user", "login", "tearDown", "done"}
      \/ pc = "test" /\ step = 0) =>
    /\ flavors = {}
    /\ metadata = {}

C19_Witness ==
  /\ method = "test_delete_flavors" /\ pc = "done" /\ reported = NoExc
  /\ step = Len(Program(method)) /\ "create_demo_user" \in called_funcs
  /\ demoUserRun = "noop" /\ flavors = {}

\* C16: the body of create_demo_user runs only in a call made while the name
\* is not in called_funcs, and that call puts it there for good, whether the
\* body completes or raises; every later call returns at once, with no UI
\* action: session and dashboard stay as they are.
C16_BodyAtMostOnce ==
  [][ /\ called_funcs \subseteq called_funcs'
      /\ (pc = "demo_user" /\ "create_demo_user" \notin called_funcs) =>
           /\ demoUserRun' = "body"
           /\ "create_demo_user" \in called_funcs'
      /\ (pc = "demo_user" /\ "create_demo_user" \in called_funcs) =>
           /\ demoUserRun' = "noop" /\ pc' = "login"
           /\ UNCHANGED << loggedIn, project, demoProject, demoUser >>
      /\ (demoUserRun' = "body" /\ demoUserRun # "body") =>
           "create_demo_user" \notin called_funcs ]_vars

C16_Witness ==
  /\ pc = "login" /\ demoUserRun = "noop"
  /\ "create_demo_user" \in called_funcs
  /\ demoUser = "stale" /\ ~demoProject

\* C17: when the body of create_demo_user has completed normally, the demo
\* project exists, the user DEMO_NAME exists and was created by this run, and
\* nobody is logged in.
C17_DemoUserPostcondition ==
  (pc = "login" /\ demoUserRun = "body") =>
    /\ demoProject
    /\ demoUser = "fresh"
    /\ loggedIn = "none"

\* C20: at the end of a test no virtual display, browser session or recorder
\* process that setUp started is still running.
C20_ResourcesReleased ==
  pc = "done" =>
    /\ vdisplay # "started"
    /\ driver # "open"
    /\ screencapture.running = 0

\* The fields the last operation wrote
Written == {events[i].field : i \in {j \in 1..Len(events) : events[j].kind = "write"}}

\* C14: every field an operation of UsersPage or VolumesPage gets, reads or
\* writes on a form constructed with a field list is a name of that list.
C14_FieldsWithinMappings ==
  \A i \in 1..Len(events) :
    (events[i].form \in MappedForms
       /\ events[i].kind \in {"get", "read", "write"}) =>
      events[i].field \in field_mappings(events[i].form)

\* C15: create_volume writes type and availability_zone only for a source type
\* other than 'Volume'; a call with source type 'Volume' that no browser
\* failure interrupted gets its form submitted with neither field written.
C15_VolumeSourceSkipsTypeAndZone ==
  (pageOp = "create_volume" /\ outcome \notin {"none", "WebDriverException"}) =>
    /\ Written \cap {"type", "availability_zone"} # {} =>
         pageArgs.source # VOLUME_SOURCE_TYPE
    /\ pageArgs.source = VOLUME_SOURCE_TYPE =>
         /\ Written \cap {"type", "availability_zone"} = {}
         /\ outcome = "returned"
         /\ events[Len(events)].kind = "submit"

\* C18: get_user_info and view_user_credentials change no user and no volume
\* of the dashboard, write no field and submit no form; when they return,
\* the form they opened has been closed with cancel.
C18_ReadOnlyOperations ==
  [][ pageOp' \in {"get_user_info", "view_user_credentials"} =>
        /\ UNCHANGED << users, volumes >>
        /\ \A i \in 1..Len(events') :
             events'[i].kind \in {"open", "read", "cancel"}
        /\ outcome' = "returned" =>
             /\ Len(events') >= 2
             /\ events'[1].kind = "open"
             /\ events'[Len(events')].kind = "cancel"
             /\ \A i \in 2..Len(events') : events'[i].kind # "open" ]_vars

C18_Witness ==
  /\ pageOp = "get_user_info" /\ outcome = "returned"
  /\ UserRows("demo") # {}
  /\ Len(events) = 5 /\ events[5].kind = "cancel"

====
